---- MODULE Spec2Model ----
(***************************************************************************)
(* Model of lv_drivers/display/monitor.c: the SDL "virtual display" driver *)
(* of lv_gui_designer.  The state is the two monitor_t objects, the two    *)
(* file-scope flags, the SDL service as far as the driver drives it, and   *)
(* the position of every execution context (the caller of monitor_init,    *)
(* the sdl_refr thread or the external frame callback, and one flush call  *)
(* per surface).                                                           *)
(***************************************************************************)
EXTENDS Integers, Sequences, FiniteSets, TLC

(***************************************************************************)
(* Sizes of the model.                                                     *)
(***************************************************************************)
\* MONITOR_HOR_RES, MONITOR_VER_RES (= LV_HOR_RES_MAX, LV_VER_RES_MAX): the
\* resolution macros of lv_drv_conf.h, scaled down.
MONITOR_HOR_RES == 3
MONITOR_VER_RES == 2
\* How far outside the surface a flush rectangle's coordinates may lie.
Margin == 1
\* Flush calls the framework issues in one run of the concurrent model; call
\* number f passes the draw buffer holding frame f.
MaxFlush == 2
\* Native events the windowing system posts in one run.
MaxEvents == 1
\* The same where no flush call is issued.
MaxLifeEvents == 2
\* The same where the calls made for the polled events are kept on record.
MaxPolled == 3
\* The largest coordinate at which the window manager places a new window.
MaxPlace == 2

NULL == 0
Surfaces == {1, 2}          \* 1: monitor, 2: monitor2

VARIABLES
    conf,           \* the build: MONITOR_DOUBLE_BUFFERED, MONITOR_DUAL, LV_COLOR_DEPTH, platform
    monitor,        \* monitor[1] = monitor, monitor[2] = monitor2 (monitor_t)
    sdl_inited,     \* static volatile bool sdl_inited
    sdl_quit_qry,   \* static volatile bool sdl_quit_qry
    sdl,            \* the SDL service: subsystem state, filter, event queue, window positions
    calls,          \* the lifecycle calls made to SDL so far, in order
    mainPc,         \* the caller of monitor_init
    initPc,         \* position inside monitor_sdl_init
    refr,           \* the sdl_refr thread / frame callback: its position and surface
    cycle,          \* the window_update calls of the current refresh cycle
    fl,             \* fl[s]: the flush call on surface s
    env,            \* what the environment may still do: flush calls, their arguments, events
    exited          \* exit(0) was called

vars == <<conf, monitor, sdl_inited, sdl_quit_qry, sdl, calls, mainPc, initPc,
          refr, cycle, fl, env, exited>>

(***************************************************************************)
(* The build configuration (monitor.c:10-41, 51, 74, 146).                 *)
(***************************************************************************)
Platforms == {"default", "apple", "emscripten"}

Builds ==
    { c \in [MONITOR_DOUBLE_BUFFERED : BOOLEAN, MONITOR_DUAL : BOOLEAN,
             LV_COLOR_DEPTH : {16, 32}, platform : Platforms] :
        c.MONITOR_DOUBLE_BUFFERED => c.LV_COLOR_DEPTH = 32 }

MONITOR_APPLE == conf.platform = "apple"
MONITOR_EMSCRIPTEN == conf.platform = "emscripten"

Configured(s) == s = 1 \/ conf.MONITOR_DUAL

(***************************************************************************)
(* Pixels.  A 32-bit pixel is <<A, R, G, B>>; a 16-bit lv_color_t is a     *)
(* number below 65536 (RGB565).                                            *)
(***************************************************************************)
FbSize == MONITOR_HOR_RES * MONITOR_VER_RES     \* tft_fb[LV_HOR_RES_MAX * LV_VER_RES_MAX]
FbIndex == 0 .. (FbSize - 1)

Zero32 == <<0, 0, 0, 0>>
Gray32 == <<68, 68, 68, 68>>                     \* memset(..., 0x44, ...)

\* lv_color_to32 for LV_COLOR_DEPTH 16 (the per-pixel path is compiled for
\* depths other than 24 and 32).
lv_color_to32(c) ==
    LET r == c \div 2048
        g == (c \div 32) % 64
        b == c % 32
    IN <<255, (r * 263 + 7) \div 32, (g * 259 + 3) \div 64, (b * 263 + 7) \div 32>>

\* The pixel at offset i of the framework's draw buffer f.
DrawBuf(depth, f, i) ==
    IF depth = 16
    THEN (f * 2113 + i * 4369 + 31) % 65536
    ELSE <<255, (f * 80) % 256, (i * 16 + 3) % 256, (f + i * 7) % 256>>

(***************************************************************************)
(* monitor_flush / monitor_flush2.                                         *)
(***************************************************************************)
Coords(res) == (0 - Margin) .. (res - 1 + Margin)

Areas ==
    { a \in [x1 : Coords(MONITOR_HOR_RES), y1 : Coords(MONITOR_VER_RES),
             x2 : Coords(MONITOR_HOR_RES), y2 : Coords(MONITOR_VER_RES)] :
        a.x1 <= a.x2 /\ a.y1 <= a.y2 }

lv_area_get_width(a) == a.x2 - a.x1 + 1

\* The display descriptor the framework passes: hor_res, ver_res as configured.
EffHres(rotated) == IF rotated = 0 THEN MONITOR_HOR_RES ELSE MONITOR_VER_RES
EffVres(rotated) == IF rotated = 0 THEN MONITOR_VER_RES ELSE MONITOR_HOR_RES

\* The bounds test with its two upper limits off by one: a rectangle that
\* starts one past the last column or row is let through.
OutOfScreenLate(a, rotated) ==
    \/ a.x2 < 0
    \/ a.y2 < 0
    \/ a.x1 > EffHres(rotated)
    \/ a.y1 > EffVres(rotated)

\* "Return if the area is out the screen"
OutOfScreen(a, rotated) ==
    \/ a.x2 < 0
    \/ a.y2 < 0
    \/ a.x1 > EffHres(rotated) - 1
    \/ a.y1 > EffVres(rotated) - 1

\* The loop condition on y.
RowLoopRuns(depth, a, y) ==
    IF depth = 16 THEN y <= a.y2
                  ELSE y <= a.y2 /\ y < MONITOR_VER_RES

\* The cell indices one iteration of the y loop stores to, in order, with the
\* source offset of each: <<index, offset>>.
RowStores(a, y, off) ==
    [ k \in 1 .. lv_area_get_width(a) |->
        <<y * MONITOR_HOR_RES + a.x1 + (k - 1), off + (k - 1)>> ]

\* The value stored from source offset o of draw buffer f.
StoredPixel(depth, f, o) ==
    IF depth = 16 THEN lv_color_to32(DrawBuf(16, f, o)) ELSE DrawBuf(32, f, o)

\* One iteration of the y loop applied to the buffer: the in-range stores.
RowApplied(fb, depth, f, st) ==
    [ i \in FbIndex |->
        IF \E k \in DOMAIN st : st[k][1] = i
        THEN LET kk == CHOOSE k \in DOMAIN st :
                          /\ st[k][1] = i
                          /\ \A k2 \in DOMAIN st : st[k2][1] = i => k2 <= k
             IN StoredPixel(depth, f, st[kk][2])
        ELSE fb[i] ]

\* The stores of an iteration that fall outside tft_fb.
RowStray(st) == { st[k][1] : k \in { k \in DOMAIN st : st[k][1] \notin FbIndex } }

\* The pixels argument window_update hands to SDL_UpdateTexture for surface s.
Pixels(s) ==
    IF conf.MONITOR_DOUBLE_BUFFERED THEN monitor[s].tft_fb_act ELSE monitor[s].tft_fb

\* A flush call: its position, its arguments, its loop variables, and what
\* the run records about it (the acknowledgments sent, whether the flag was
\* set, the surface as it was at entry, the stores outside tft_fb, and, where
\* env.trace is set, the non-rejected calls completed so far).
IdleFlush == [pc |-> "idle", area |-> [x1 |-> 0, y1 |-> 0, x2 |-> 0, y2 |-> 0],
              rotated |-> 0, color_p |-> NULL, y |-> 0, off |-> 0, acks |-> 0,
              qrySet |-> FALSE, before |-> <<>>, stray |-> {}, hist |-> <<>>]

\* Entry of monitor_flush(disp_drv, area, color_p) up to the bounds test.
FlushEnter(s, a, rot, f) ==
    /\ fl' = [fl EXCEPT ![s] =
                [pc |-> IF OutOfScreen(a, rot) THEN "ready"
                        ELSE IF conf.MONITOR_DOUBLE_BUFFERED THEN "set_fb_act"
                        ELSE "copy",
                 area |-> a, rotated |-> rot, color_p |-> f,
                 y |-> a.y1, off |-> 0, acks |-> 0, qrySet |-> FALSE,
                 before |-> monitor[s], stray |-> {}, hist |-> fl[s].hist]]

\* monitor.tft_fb_act = (uint32_t *)color_p;
FlushSetFbAct(s) ==
    /\ ~exited
    /\ fl[s].pc = "set_fb_act"
    /\ monitor' = [monitor EXCEPT ![s].tft_fb_act = fl[s].color_p]
    /\ fl' = [fl EXCEPT ![s].pc = "set_qry"]
    /\ UNCHANGED <<conf, sdl_inited, sdl_quit_qry, sdl, calls, mainPc, initPc,
                   refr, cycle, env, exited>>

\* One iteration of the y loop (the x loop, or the memcpy), or the loop's end.
\* A store outside tft_fb is undefined behaviour: the store is recorded in
\* stray and the call is followed no further.
FlushCopy(s) ==
    /\ ~exited
    /\ fl[s].pc = "copy"
    /\ LET c == fl[s]
           st == RowStores(c.area, c.y, c.off)
       IN IF RowLoopRuns(conf.LV_COLOR_DEPTH, c.area, c.y)
          THEN /\ monitor' = [monitor EXCEPT ![s].tft_fb =
                               RowApplied(@, conf.LV_COLOR_DEPTH, c.color_p, st)]
               /\ fl' = [fl EXCEPT ![s].y = c.y + 1,
                                   ![s].off = c.off + lv_area_get_width(c.area),
                                   ![s].stray = c.stray \cup RowStray(st),
                                   ![s].pc = IF RowStray(st) = {} THEN "copy" ELSE "ub"]
          ELSE /\ fl' = [fl EXCEPT ![s].pc = "set_qry"]
               /\ UNCHANGED monitor
    /\ UNCHANGED <<conf, sdl_inited, sdl_quit_qry, sdl, calls, mainPc, initPc,
                   refr, cycle, env, exited>>

\* The flag set only once the loop has consumed the previous request.
FlushSetQryWaits(s) ==
    /\ ~exited
    /\ fl[s].pc = "set_qry"
    /\ monitor[s].sdl_refr_qry = FALSE
    /\ monitor' = [monitor EXCEPT ![s].sdl_refr_qry = TRUE]
    /\ fl' = [fl EXCEPT ![s].pc = "ready", ![s].qrySet = TRUE]
    /\ UNCHANGED <<conf, sdl_inited, sdl_quit_qry, sdl, calls, mainPc, initPc,
                   refr, cycle, env, exited>>

\* monitor.sdl_refr_qry = true;
FlushSetQry(s) ==
    /\ ~exited
    /\ fl[s].pc = "set_qry"
    /\ monitor' = [monitor EXCEPT ![s].sdl_refr_qry = TRUE]
    /\ fl' = [fl EXCEPT ![s].pc = "ready", ![s].qrySet = TRUE]
    /\ UNCHANGED <<conf, sdl_inited, sdl_quit_qry, sdl, calls, mainPc, initPc,
                   refr, cycle, env, exited>>

\* The return without lv_disp_flush_ready on the branch that did not set the
\* flag.
FlushReadyUnlessRejected(s) ==
    /\ ~exited
    /\ fl[s].pc = "ready"
    /\ fl' = [fl EXCEPT ![s].pc = "returned",
                        ![s].acks = IF fl[s].qrySet THEN @ + 1 ELSE @]
    /\ UNCHANGED <<conf, monitor, sdl_inited, sdl_quit_qry, sdl, calls, mainPc,
                   initPc, refr, cycle, env, exited>>

\* lv_disp_flush_ready(disp_drv); and the return.
FlushReady(s) ==
    /\ ~exited
    /\ fl[s].pc = "ready"
    /\ fl' = [fl EXCEPT ![s] =
                IF env.trace
                THEN [@ EXCEPT !.pc = "returned", !.acks = @ + 1,
                               !.hist = IF fl[s].qrySet
                                        THEN Append(@, [area |-> fl[s].area,
                                                        color_p |-> fl[s].color_p,
                                                        shown |-> Pixels(s)])
                                        ELSE @]
                ELSE [IdleFlush EXCEPT !.pc = "returned", !.acks = fl[s].acks + 1]]
    /\ UNCHANGED <<conf, monitor, sdl_inited, sdl_quit_qry, sdl, calls, mainPc,
                   initPc, refr, cycle, env, exited>>

(***************************************************************************)
(* The SDL service as the driver uses it.                                  *)
(***************************************************************************)
\* The value of a handle field once created; NULL before.
WindowOf(s) == 10 * s + 1
RendererOf(s) == 10 * s + 2
TextureOf(s) == 10 * s + 3

\* Event types the code distinguishes: event->type and, for SDL_WINDOWEVENT,
\* event->window.event.
EventTypes ==
    { [type |-> "SDL_QUIT", window |-> "none"],
      [type |-> "SDL_WINDOWEVENT", window |-> "SDL_WINDOWEVENT_CLOSE"],
      [type |-> "SDL_WINDOWEVENT", window |-> "SDL_WINDOWEVENT_EXPOSED"],
      [type |-> "SDL_WINDOWEVENT", window |-> "SDL_WINDOWEVENT_TAKE_FOCUS"],
      [type |-> "SDL_WINDOWEVENT", window |-> "SDL_WINDOWEVENT_MOVED"],
      [type |-> "SDL_MOUSEMOTION", window |-> "none"] }


\* An SDL call that names a handle: a handle that is not live is a misuse.
Misused(handles) == \E h \in handles : h \notin sdl.live

\* A filter that asks for the quit only on SDL_QUIT.
quit_filterQuitOnly(e) ==
    IF e.type = "SDL_QUIT" THEN TRUE ELSE sdl_quit_qry

\* int quit_filter(void * userdata, SDL_Event * event): the new value of
\* sdl_quit_qry.
quit_filter(e) ==
    IF e.type = "SDL_WINDOWEVENT"
    THEN (IF e.window = "SDL_WINDOWEVENT_CLOSE" THEN TRUE ELSE sdl_quit_qry)
    ELSE IF e.type = "SDL_QUIT" THEN TRUE
    ELSE sdl_quit_qry

\* return 1; at the end of quit_filter, for every event.
quit_filter_return(e) == 1

\* Whether SDL adds the event to its queue: it drops the events for which an
\* installed filter returns 0.
Queued(e) == sdl.filter => quit_filter_return(e) # 0

\* The windowing system posts an event: SDL runs the installed filter on it
\* and, the filter returning 1, queues it (sdl.arrived keeps, when env.log is
\* set, the events queued since the filter was installed).
PostEvent(e) ==
    /\ ~exited
    /\ sdl.state = "on"
    /\ env.events > 0
    /\ e.type = "SDL_WINDOWEVENT" => \E s \in Surfaces : WindowOf(s) \in sdl.live
    /\ sdl_quit_qry' = IF sdl.filter THEN quit_filter(e) ELSE sdl_quit_qry
    /\ sdl' = [sdl EXCEPT
                 !.queue = IF Queued(e) THEN Append(@, e) ELSE @,
                 !.arrived = IF env.log /\ Queued(e) THEN Append(@, e) ELSE @]
    /\ env' = [env EXCEPT !.events = @ - 1]
    /\ UNCHANGED <<conf, monitor, sdl_inited, calls, mainPc, initPc, refr, cycle,
                   fl, exited>>

(***************************************************************************)
(* window_create and window_update.                                        *)
(***************************************************************************)
\* static void window_update(monitor_t * m): the entry it adds to the cycle's
\* record (none when the borrowed pointer is NULL).
window_update(s, via) ==
    IF conf.MONITOR_DOUBLE_BUFFERED /\ monitor[s].tft_fb_act = NULL
    THEN <<>>
    ELSE << [s |-> s, via |-> via, pixels |-> Pixels(s)] >>

\* Whether window_update(m) hands SDL a texture or renderer that is not live.
UpdateMisuses(s) ==
    /\ ~(conf.MONITOR_DOUBLE_BUFFERED /\ monitor[s].tft_fb_act = NULL)
    /\ Misused({monitor[s].texture, monitor[s].renderer})

\* The SDL calls of window_create; SDL_UpdateTexture is given m->tft_fb_act
\* in the double-buffered build (recorded as call name, surface, pixels).
CreateCalls(s, fb_act) ==
    << <<"SDL_CreateWindow", s>>, <<"SDL_CreateRenderer", s>>, <<"SDL_CreateTexture", s>> >>
    \o (IF conf.MONITOR_DOUBLE_BUFFERED
        THEN << <<"SDL_UpdateTexture", s, fb_act>> >>
        ELSE <<>>)

\* static void window_create(monitor_t * m)
window_create(s) ==
    /\ monitor' = [monitor EXCEPT
            ![s].window = WindowOf(s),
            ![s].renderer = RendererOf(s),
            ![s].texture = TextureOf(s),
            ![s].tft_fb = IF conf.MONITOR_DOUBLE_BUFFERED THEN @
                          ELSE [i \in FbIndex |-> Gray32],
            ![s].sdl_refr_qry = TRUE]
    /\ \E x \in env.placements :
         sdl' = [sdl EXCEPT !.live = @ \cup {WindowOf(s), RendererOf(s), TextureOf(s)},
                            !.pos[s] = x]
    /\ calls' = calls \o CreateCalls(s, monitor[s].tft_fb_act)

(***************************************************************************)
(* monitor_sdl_init, run by the caller of monitor_init (Apple, Emscripten) *)
(* or at the top of the sdl_refr thread.                                   *)
(***************************************************************************)
InitUnchanged == <<conf, mainPc, refr, cycle, fl, env, exited>>

\* SDL_Init(SDL_INIT_VIDEO);
SdlInit ==
    /\ ~exited
    /\ initPc = "SDL_Init"
    /\ sdl' = [sdl EXCEPT !.state = "on"]
    /\ calls' = Append(calls, <<"SDL_Init", 0>>)
    /\ initPc' = "SDL_SetEventFilter"
    /\ UNCHANGED <<monitor, sdl_inited, sdl_quit_qry>>
    /\ UNCHANGED InitUnchanged

\* SDL_SetEventFilter(quit_filter, NULL); SDL installs the filter and discards
\* the events already queued.
SdlSetEventFilter ==
    /\ ~exited
    /\ initPc = "SDL_SetEventFilter"
    /\ sdl' = [sdl EXCEPT !.filter = TRUE, !.queue = <<>>, !.arrived = <<>>]
    /\ calls' = Append(calls, <<"SDL_SetEventFilter", 0>>)
    /\ initPc' = "window_create"
    /\ UNCHANGED <<monitor, sdl_inited, sdl_quit_qry>>
    /\ UNCHANGED InitUnchanged

\* window_create(&monitor);
SdlCreateFirst ==
    /\ ~exited
    /\ initPc = "window_create"
    /\ window_create(1)
    /\ initPc' = IF conf.MONITOR_DUAL THEN "window_create2" ELSE "set_inited"
    /\ UNCHANGED <<sdl_inited, sdl_quit_qry>>
    /\ UNCHANGED InitUnchanged

\* window_create(&monitor2);
SdlCreateSecond ==
    /\ ~exited
    /\ initPc = "window_create2"
    /\ window_create(2)
    /\ initPc' = "position"
    /\ UNCHANGED <<sdl_inited, sdl_quit_qry>>
    /\ UNCHANGED InitUnchanged

\* The second SDL_SetWindowPosition call with the sign of the gap wrong.
PositionedGapInward(x) ==
    [s \in Surfaces |-> IF s = 1 THEN x + MONITOR_HOR_RES \div 2 + 10
                                 ELSE x - MONITOR_HOR_RES \div 2 + 10]

\* The x positions SDL_SetWindowPosition gives the two windows, x being the
\* position read from monitor2.window.
Positioned(x) ==
    [s \in Surfaces |-> IF s = 1 THEN x + MONITOR_HOR_RES \div 2 + 10
                                 ELSE x - MONITOR_HOR_RES \div 2 - 10]

PositionCalls ==
    << <<"SDL_GetWindowPosition", 2>>, <<"SDL_SetWindowPosition", 1>>,
       <<"SDL_SetWindowPosition", 2>> >>

\* SDL_GetWindowPosition(monitor2.window, &x, &y); and the two
\* SDL_SetWindowPosition calls.
SdlPosition ==
    /\ ~exited
    /\ initPc = "position"
    /\ sdl' = [sdl EXCEPT !.pos = [s \in Surfaces |->
                                      [x |-> Positioned(sdl.pos[2].x)[s],
                                       y |-> sdl.pos[2].y]],
                          !.misuse = @ \/ Misused({monitor[1].window, monitor[2].window})]
    /\ calls' = calls \o PositionCalls
    /\ initPc' = "set_inited"
    /\ UNCHANGED <<monitor, sdl_inited, sdl_quit_qry>>
    /\ UNCHANGED InitUnchanged

\* sdl_inited = true; and the return of monitor_sdl_init.
SdlSetInited ==
    /\ ~exited
    /\ initPc = "set_inited"
    /\ sdl_inited' = TRUE
    /\ initPc' = "done"
    /\ UNCHANGED <<monitor, sdl_quit_qry, sdl, calls>>
    /\ UNCHANGED InitUnchanged

monitor_sdl_init ==
    \/ SdlInit
    \/ SdlSetEventFilter
    \/ SdlCreateFirst
    \/ SdlCreateSecond
    \/ SdlPosition
    \/ SdlSetInited

(***************************************************************************)
(* monitor_init, on the thread of its caller.                              *)
(***************************************************************************)
MainUnchanged == <<conf, monitor, sdl_inited, sdl_quit_qry, sdl, calls, cycle, fl,
                   env, exited>>

\* Entry: monitor_sdl_init() here on Apple and Emscripten.
MainEnter ==
    /\ ~exited
    /\ mainPc = "start"
    /\ IF MONITOR_APPLE \/ MONITOR_EMSCRIPTEN
       THEN mainPc' = "sdl_init" /\ initPc' = "SDL_Init"
       ELSE mainPc' = "create_thread" /\ UNCHANGED initPc
    /\ UNCHANGED refr
    /\ UNCHANGED MainUnchanged

\* monitor_sdl_init() returned to monitor_init.
MainInitReturn ==
    /\ ~exited
    /\ mainPc = "sdl_init"
    /\ initPc = "done"
    /\ mainPc' = IF MONITOR_EMSCRIPTEN THEN "returned" ELSE "create_thread"
    /\ UNCHANGED <<initPc, refr>>
    /\ UNCHANGED MainUnchanged

\* SDL_CreateThread(monitor_sdl_refr_thread, "sdl_refr", NULL); the thread
\* starts with monitor_sdl_init() unless MONITOR_APPLE.
MainCreateThread ==
    /\ ~exited
    /\ mainPc = "create_thread"
    /\ mainPc' = "wait_inited"
    /\ IF MONITOR_APPLE
       THEN refr' = [refr EXCEPT !.pc = "loop"] /\ UNCHANGED initPc
       ELSE refr' = [refr EXCEPT !.pc = "sdl_init"] /\ initPc' = "SDL_Init"
    /\ UNCHANGED MainUnchanged

\* No wait at all: monitor_init returns as soon as the thread is created.
NoWait == TRUE

\* while(sdl_inited == false);
WaitInited == sdl_inited

MainWait ==
    /\ ~exited
    /\ mainPc = "wait_inited"
    /\ WaitInited
    /\ mainPc' = "returned"
    /\ UNCHANGED <<initPc, refr>>
    /\ UNCHANGED MainUnchanged

monitor_init ==
    \/ MainEnter
    \/ MainInitReturn
    \/ MainCreateThread
    \/ MainWait

(***************************************************************************)
(* The framework's flush calls.                                            *)
(***************************************************************************)
FlushIdle(s) == fl[s].pc \in {"idle", "returned"}

\* The framework calls monitor_flush (s = 1) or monitor_flush2 (s = 2) once
\* monitor_init has returned, one call at a time per surface; on Emscripten
\* the frame callback and the flush calls share the one thread.
FlushCall(s) ==
    /\ ~exited
    /\ Configured(s)
    /\ mainPc = "returned"
    /\ FlushIdle(s)
    /\ MONITOR_EMSCRIPTEN =>
          refr.pc = "idle" /\ \A o \in Surfaces : FlushIdle(o)
    /\ env.flush > 0
    /\ \E a \in env.areas, rot \in env.rots, f \in env.frames :
          /\ env.numbered => f = MaxFlush - env.flush + 1
          /\ FlushEnter(s, a, rot, f)
    /\ env' = [env EXCEPT !.flush = @ - 1]
    /\ UNCHANGED <<conf, monitor, sdl_inited, sdl_quit_qry, sdl, calls, mainPc,
                   initPc, refr, cycle, exited>>

monitor_flush(s) ==
    \/ FlushCall(s)
    \/ FlushSetFbAct(s)
    \/ FlushCopy(s)
    \/ FlushSetQry(s)
    \/ FlushReady(s)

(***************************************************************************)
(* monitor_sdl_refr_thread and monitor_sdl_refr_core.                      *)
(***************************************************************************)
RefrUnchanged == <<conf, sdl_inited, mainPc, initPc, fl, env, exited>>

\* monitor_sdl_init() returned to the thread.
RefrInitReturn ==
    /\ ~exited
    /\ refr.pc = "sdl_init"
    /\ initPc = "done"
    /\ refr' = [refr EXCEPT !.pc = "loop"]
    /\ UNCHANGED <<monitor, sdl_quit_qry, sdl, calls, cycle>>
    /\ UNCHANGED RefrUnchanged

\* What the thread does with the value of sdl_quit_qry it reads.
LoopExits(quit) == quit # FALSE

\* while(sdl_quit_qry == false) { monitor_sdl_refr_core(); }
RefrLoop ==
    /\ ~exited
    /\ refr.pc = "loop"
    /\ IF LoopExits(sdl_quit_qry)
       THEN refr' = [refr EXCEPT !.pc = "clean_up"]
       ELSE refr' = [refr EXCEPT !.pc = "qry_test", !.s = 1]
    /\ UNCHANGED <<monitor, sdl_quit_qry, sdl, calls, cycle>>
    /\ UNCHANGED RefrUnchanged

\* The loop sleeps in SDL_Delay (or the host has not yet called the next
\* frame) while the framework issues its flush calls back to back: the
\* scheduling the coalescing scenario is about.
Held == env.hold /\ (env.flush > 0 \/ \E s \in Surfaces : ~FlushIdle(s))

\* Emscripten: the host's frame callback calls monitor_sdl_refr_core().
FrameCallback ==
    /\ ~exited
    /\ MONITOR_EMSCRIPTEN
    /\ mainPc = "returned"
    /\ refr.pc = "idle"
    /\ \A s \in Surfaces : FlushIdle(s)
    /\ ~Held
    /\ refr' = [refr EXCEPT !.pc = "qry_test", !.s = 1]
    /\ UNCHANGED <<conf, monitor, sdl_inited, sdl_quit_qry, sdl, calls, mainPc,
                   initPc, cycle, fl, env, exited>>

\* After surface s: the next configured surface, then the event loop where
\* this thread polls, else the delay.
AfterSurface(s) ==
    IF s = 1 /\ conf.MONITOR_DUAL THEN [refr EXCEPT !.pc = "qry_test", !.s = 2]
    ELSE IF ~MONITOR_APPLE /\ ~MONITOR_EMSCRIPTEN THEN [refr EXCEPT !.pc = "poll"]
    ELSE [refr EXCEPT !.pc = "delay"]

\* if(monitor.sdl_refr_qry != false)
RefrQryTest ==
    /\ ~exited
    /\ refr.pc = "qry_test"
    /\ refr' = IF monitor[refr.s].sdl_refr_qry # FALSE
               THEN [refr EXCEPT !.pc = "qry_clear"]
               ELSE AfterSurface(refr.s)
    /\ UNCHANGED <<monitor, sdl_quit_qry, sdl, calls, cycle>>
    /\ UNCHANGED RefrUnchanged

\* The flag cleared and the surface passed over without window_update.
RefrQryClearOnly ==
    /\ ~exited
    /\ refr.pc = "qry_clear"
    /\ monitor' = [monitor EXCEPT ![refr.s].sdl_refr_qry = FALSE]
    /\ refr' = AfterSurface(refr.s)
    /\ UNCHANGED <<sdl_quit_qry, sdl, calls, cycle>>
    /\ UNCHANGED RefrUnchanged

\* The step to window_update that leaves the flag set.
RefrQryKept ==
    /\ ~exited
    /\ refr.pc = "qry_clear"
    /\ refr' = [refr EXCEPT !.pc = "update"]
    /\ UNCHANGED <<monitor, sdl_quit_qry, sdl, calls, cycle>>
    /\ UNCHANGED RefrUnchanged

\* monitor.sdl_refr_qry = false;
RefrQryClear ==
    /\ ~exited
    /\ refr.pc = "qry_clear"
    /\ monitor' = [monitor EXCEPT ![refr.s].sdl_refr_qry = FALSE]
    /\ refr' = [refr EXCEPT !.pc = "update"]
    /\ UNCHANGED <<sdl_quit_qry, sdl, calls, cycle>>
    /\ UNCHANGED RefrUnchanged

\* window_update(&monitor);
RefrUpdate ==
    /\ ~exited
    /\ refr.pc = "update"
    /\ cycle' = cycle \o window_update(refr.s, "qry")
    /\ sdl' = [sdl EXCEPT !.misuse = @ \/ UpdateMisuses(refr.s)]
    /\ refr' = AfterSurface(refr.s)
    /\ UNCHANGED <<monitor, sdl_quit_qry, calls>>
    /\ UNCHANGED RefrUnchanged

\* The handlers with the keyboard served first.
HandlersKeyboardFirst == <<"keyboard_handler", "mouse_handler", "mousewheel_handler">>

\* The input handlers every polled event is offered to, in this order
\* (USE_MOUSE, USE_MOUSEWHEEL and USE_KEYBOARD set).
Handlers == <<"mouse_handler", "mousewheel_handler", "keyboard_handler">>

\* The switch without its SDL_WINDOWEVENT_TAKE_FOCUS case.
ForcesUpdateExposedOnly(e) ==
    /\ e.type = "SDL_WINDOWEVENT"
    /\ e.window = "SDL_WINDOWEVENT_EXPOSED"

\* The cases of the switch that re-present.
ForcesUpdate(e) ==
    /\ e.type = "SDL_WINDOWEVENT"
    /\ e.window \in {"SDL_WINDOWEVENT_TAKE_FOCUS", "SDL_WINDOWEVENT_EXPOSED"}

\* The window_update calls of those cases.
ExposedUpdates ==
    window_update(1, "event")
    \o (IF conf.MONITOR_DUAL THEN window_update(2, "event") ELSE <<>>)

ExposedMisuses ==
    UpdateMisuses(1) \/ (conf.MONITOR_DUAL /\ UpdateMisuses(2))

\* The calls one iteration of the polling loop makes for event e, in order:
\* <<function, event>>.
PollCalls(e) ==
    [ k \in DOMAIN Handlers |-> <<Handlers[k], e>> ]
    \o (IF ForcesUpdate(e)
        THEN << <<"window_update", e>> >>
             \o (IF conf.MONITOR_DUAL THEN << <<"window_update", e>> >> ELSE <<>>)
        ELSE <<>>)

\* while(SDL_PollEvent(&event)) { handlers; window-event switch }: one
\* iteration, or the end of the loop when the queue is empty (refr.offered
\* keeps, when env.log is set, the calls made for the polled events).
RefrPoll ==
    /\ ~exited
    /\ refr.pc = "poll"
    /\ IF sdl.queue # <<>>
       THEN LET e == Head(sdl.queue)
            IN /\ sdl' = [sdl EXCEPT !.queue = Tail(@),
                                     !.misuse = @ \/ (ForcesUpdate(e) /\ ExposedMisuses)]
               /\ cycle' = IF ForcesUpdate(e) THEN cycle \o ExposedUpdates ELSE cycle
               /\ refr' = [refr EXCEPT
                             !.offered = IF env.log THEN @ \o PollCalls(e) ELSE @]
       ELSE /\ refr' = [refr EXCEPT !.pc = "delay"]
            /\ UNCHANGED <<sdl, cycle>>
    /\ UNCHANGED <<monitor, sdl_quit_qry, calls>>
    /\ UNCHANGED RefrUnchanged

\* SDL_Delay(SDL_REFR_PERIOD); and the return of monitor_sdl_refr_core, which
\* ends the cycle.
RefrDelay ==
    /\ ~exited
    /\ refr.pc = "delay"
    /\ ~Held
    /\ refr' = [refr EXCEPT !.pc = IF MONITOR_EMSCRIPTEN THEN "idle" ELSE "loop"]
    /\ cycle' = IF env.trace THEN cycle ELSE <<>>
    /\ UNCHANGED <<monitor, sdl_quit_qry, sdl, calls>>
    /\ UNCHANGED RefrUnchanged

monitor_sdl_refr_core ==
    \/ RefrQryTest
    \/ RefrQryClear
    \/ RefrUpdate
    \/ RefrPoll
    \/ RefrDelay

(***************************************************************************)
(* monitor_sdl_clean_up and exit(0).                                       *)
(***************************************************************************)
\* The destroy calls of one surface in the order of its creation.
CleanUpOfWindowFirst(s) ==
    << <<"SDL_DestroyWindow", monitor[s].window>>,
       <<"SDL_DestroyRenderer", monitor[s].renderer>>,
       <<"SDL_DestroyTexture", monitor[s].texture>> >>

\* The calls of monitor_sdl_clean_up, in order: <<function, handle>>.
CleanUpOf(s) ==
    << <<"SDL_DestroyTexture", monitor[s].texture>>,
       <<"SDL_DestroyRenderer", monitor[s].renderer>>,
       <<"SDL_DestroyWindow", monitor[s].window>> >>

CleanUpCalls ==
    CleanUpOf(1) \o (IF conf.MONITOR_DUAL THEN CleanUpOf(2) ELSE <<>>)

\* A teardown that also marks SDL as no longer initialized.
CleanUpClearsInited ==
    /\ ~exited
    /\ refr.pc = "clean_up"
    /\ sdl' = [sdl EXCEPT
                 !.live = @ \ { CleanUpCalls[k][2] : k \in DOMAIN CleanUpCalls },
                 !.state = "quit"]
    /\ calls' = calls \o CleanUpCalls \o << <<"SDL_Quit", 0>> >>
    /\ refr' = [refr EXCEPT !.pc = "exit"]
    /\ sdl_inited' = FALSE
    /\ UNCHANGED <<conf, monitor, sdl_quit_qry, cycle, mainPc, initPc, fl, env, exited>>

\* A teardown after which the thread goes back to its loop.
CleanUpAndResume ==
    /\ ~exited
    /\ refr.pc = "clean_up"
    /\ sdl' = [sdl EXCEPT
                 !.live = @ \ { CleanUpCalls[k][2] : k \in DOMAIN CleanUpCalls },
                 !.misuse = @ \/ Misused({ CleanUpCalls[k][2] : k \in DOMAIN CleanUpCalls }),
                 !.state = "quit"]
    /\ calls' = calls \o CleanUpCalls \o << <<"SDL_Quit", 0>> >>
    /\ refr' = [refr EXCEPT !.pc = "loop"]
    /\ UNCHANGED <<monitor, sdl_quit_qry, cycle>>
    /\ UNCHANGED RefrUnchanged

\* static void monitor_sdl_clean_up(void): the destroy calls, then SDL_Quit().
monitor_sdl_clean_up ==
    /\ ~exited
    /\ refr.pc = "clean_up"
    /\ sdl' = [sdl EXCEPT
                 !.live = @ \ { CleanUpCalls[k][2] : k \in DOMAIN CleanUpCalls },
                 !.misuse = @ \/ Misused({ CleanUpCalls[k][2] : k \in DOMAIN CleanUpCalls }),
                 !.state = "quit"]
    /\ calls' = calls \o CleanUpCalls \o << <<"SDL_Quit", 0>> >>
    /\ refr' = [refr EXCEPT !.pc = "exit"]
    /\ UNCHANGED <<monitor, sdl_quit_qry, cycle>>
    /\ UNCHANGED RefrUnchanged

\* exit(0);
ThreadExit ==
    /\ ~exited
    /\ refr.pc = "exit"
    /\ exited' = TRUE
    /\ calls' = Append(calls, <<"exit", 0>>)
    /\ refr' = [refr EXCEPT !.pc = "exited"]
    /\ UNCHANGED <<conf, monitor, sdl_inited, sdl_quit_qry, sdl, mainPc, initPc,
                   cycle, fl, env>>

monitor_sdl_refr_thread ==
    \/ RefrInitReturn
    \/ RefrLoop
    \/ monitor_sdl_refr_core
    \/ monitor_sdl_clean_up
    \/ ThreadExit

(***************************************************************************)
(* The concurrent model: initialization, the presentation loop, the flush  *)
(* calls and the windowing system's events, interleaved.                   *)
(***************************************************************************)
\* Static storage before monitor_init: zero-initialized.
Monitor0 ==
    [window |-> NULL, renderer |-> NULL, texture |-> NULL, sdl_refr_qry |-> FALSE,
     tft_fb_act |-> NULL, tft_fb |-> [i \in FbIndex |-> Zero32]]

\* A window position; Origin stands for a window that does not exist.
Origin == [x |-> 0, y |-> 0]
Placed == [x |-> 40, y |-> 30]

Sdl0 == [state |-> "off", filter |-> FALSE, queue |-> <<>>, arrived |-> <<>>,
         live |-> {},
         pos |-> [s \in Surfaces |-> Origin], misuse |-> FALSE]

Refr0 == [pc |-> "none", s |-> 1, offered |-> <<>>]

\* Rectangles of the concurrent model: the whole screen, one cell, and one
\* rejected rectangle.
FullScreen == [x1 |-> 0, y1 |-> 0, x2 |-> MONITOR_HOR_RES - 1, y2 |-> MONITOR_VER_RES - 1]
OneCell == [x1 |-> 1, y1 |-> 1, x2 |-> 1, y2 |-> 1]
OffScreen == [x1 |-> MONITOR_HOR_RES, y1 |-> 0, x2 |-> MONITOR_HOR_RES, y2 |-> 0]

\* What the environment does in the concurrent model.
MainEnv ==
    [flush |-> MaxFlush, events |-> MaxEvents, areas |-> {OneCell, OffScreen},
     rots |-> {0}, frames |-> 1 .. MaxFlush, numbered |-> TRUE, trace |-> FALSE,
     hold |-> FALSE, placements |-> {Placed}, log |-> FALSE]

\* The state before monitor_init is called.
InitState(e) ==
    /\ conf \in Builds
    /\ monitor = [s \in Surfaces |-> Monitor0]
    /\ sdl_inited = FALSE
    /\ sdl_quit_qry = FALSE
    /\ sdl = Sdl0
    /\ calls = <<>>
    /\ mainPc = "start"
    /\ initPc = "idle"
    /\ refr = [Refr0 EXCEPT !.pc = IF conf.platform = "emscripten" THEN "idle" ELSE "none"]
    /\ cycle = <<>>
    /\ fl = [s \in Surfaces |-> IdleFlush]
    /\ env = e
    /\ exited = FALSE

Init == InitState(MainEnv)

Next ==
    \/ monitor_init
    \/ monitor_sdl_init
    \/ monitor_sdl_refr_thread
    \/ FrameCallback
    \/ \E s \in Surfaces : monitor_flush(s)
    \/ \E e \in EventTypes : PostEvent(e)

Spec == Init /\ [][Next]_vars

(***************************************************************************)
(* The lifecycle alone: initialization, the loop, the events and teardown, *)
(* under the scheduling of the threads (every thread that can step does).  *)
(***************************************************************************)
\* Where the window manager may put a window created with
\* SDL_WINDOWPOS_UNDEFINED.
Placements ==
    { [x |-> x, y |-> y] : x \in (0 - MaxPlace) .. MaxPlace, y \in {0, MaxPlace} }

InitLife ==
    InitState([MainEnv EXCEPT !.flush = 0, !.events = MaxLifeEvents,
                              !.placements = Placements])

NextLife ==
    \/ monitor_init
    \/ monitor_sdl_init
    \/ monitor_sdl_refr_thread
    \/ FrameCallback
    \/ \E e \in EventTypes : PostEvent(e)

LifeFair ==
    /\ WF_vars(monitor_init)
    /\ WF_vars(monitor_sdl_init)
    /\ WF_vars(monitor_sdl_refr_thread)
    /\ WF_vars(FrameCallback)

SpecLife == InitLife /\ [][NextLife]_vars /\ LifeFair

(***************************************************************************)
(* The lifecycle with the events queued and the calls the polling loop     *)
(* makes for them on record.                                               *)
(***************************************************************************)
InitEvents ==
    InitState([MainEnv EXCEPT !.flush = 0, !.events = MaxPolled, !.log = TRUE])

SpecEvents == InitEvents /\ [][NextLife]_vars

(***************************************************************************)
(* The state once monitor_init has returned and the loop has been through  *)
(* its first cycles: the start of the specifications about flushing.       *)
(***************************************************************************)
InitCalls ==
    << <<"SDL_Init", 0>>, <<"SDL_SetEventFilter", 0>> >>
    \o CreateCalls(1, NULL)
    \o (IF conf.MONITOR_DUAL THEN CreateCalls(2, NULL) \o PositionCalls ELSE <<>>)

\* The buffer after a full-screen flush of frame f.
FullFrame(f) == [i \in FbIndex |-> StoredPixel(conf.LV_COLOR_DEPTH, f, i)]
GrayFrame == [i \in FbIndex |-> Gray32]

\* What has happened to a surface since the loop presented its creation:
\* nothing, a full-screen flush the loop has presented, or one it has not.
\* That earlier flush passed the draw buffer PriorFrame.
Priors == {"none", "presented", "pending"}
PriorFrame == MaxFlush + 1

CreatedMonitor(s, prior) ==
    IF Configured(s)
    THEN [window |-> WindowOf(s), renderer |-> RendererOf(s), texture |-> TextureOf(s),
          sdl_refr_qry |-> (prior = "pending"),
          tft_fb_act |-> IF conf.MONITOR_DOUBLE_BUFFERED /\ prior # "none"
                         THEN PriorFrame ELSE NULL,
          tft_fb |-> IF conf.MONITOR_DOUBLE_BUFFERED THEN Monitor0.tft_fb
                     ELSE IF prior = "none" THEN GrayFrame
                     ELSE FullFrame(PriorFrame)]
    ELSE Monitor0

Running(e, priors) ==
    /\ \E p \in [Surfaces -> priors] :
         monitor = [s \in Surfaces |-> CreatedMonitor(s, p[s])]
    /\ sdl_inited = TRUE
    /\ sdl_quit_qry = FALSE
    /\ sdl = [state |-> "on", filter |-> TRUE, queue |-> <<>>, arrived |-> <<>>,
              live |-> UNION { {WindowOf(s), RendererOf(s), TextureOf(s)} :
                               s \in { x \in Surfaces : Configured(x) } },
              pos |-> [s \in Surfaces |->
                         IF conf.MONITOR_DUAL
                         THEN [x |-> Positioned(Placed.x)[s], y |-> Placed.y]
                         ELSE IF s = 1 THEN Placed ELSE Origin],
              misuse |-> FALSE]
    /\ calls = InitCalls
    /\ mainPc = "returned"
    /\ initPc = "done"
    /\ refr = [pc |-> IF MONITOR_EMSCRIPTEN THEN "idle" ELSE "delay",
               s |-> IF conf.MONITOR_DUAL THEN 2 ELSE 1, offered |-> <<>>]
    /\ cycle = <<>>
    /\ fl = [s \in Surfaces |-> IdleFlush]
    /\ env = e
    /\ exited = FALSE

(***************************************************************************)
(* One flush call on its own, its arguments drawn from all rectangles,     *)
(* both rotations and every frame.                                         *)
(***************************************************************************)
FlushEnv ==
    [MainEnv EXCEPT !.flush = 1, !.events = 0, !.areas = Areas, !.rots = {0, 1},
                    !.numbered = FALSE, !.trace = TRUE]

InitFlush ==
    /\ conf \in { c \in Builds : c.platform = "default" }
    /\ Running(FlushEnv, Priors)

NextFlush == \E s \in Surfaces : monitor_flush(s)

SpecFlush == InitFlush /\ [][NextFlush]_vars

(***************************************************************************)
(* Flush calls issued back to back while the loop sleeps, then the loop's  *)
(* cycles: the run keeps the record of every texture update.               *)
(***************************************************************************)
CoalesceEnv ==
    [MainEnv EXCEPT !.events = 0, !.areas = {FullScreen, OneCell, OffScreen},
                    !.trace = TRUE, !.hold = TRUE]

InitCoalesce ==
    /\ conf \in Builds
    /\ Running(CoalesceEnv, {"none", "presented"})

NextPresent ==
    \/ RefrLoop
    \/ monitor_sdl_refr_core
    \/ FrameCallback
    \/ \E s \in Surfaces : monitor_flush(s)

\* The sdl_refr thread is scheduled and SDL_Delay returns; the host calls the
\* frame callback on every frame.
PresentFair ==
    /\ WF_vars(RefrLoop \/ monitor_sdl_refr_core)
    /\ WF_vars(FrameCallback)

SpecCoalesce == InitCoalesce /\ [][NextPresent]_vars /\ PresentFair

(***************************************************************************)
(* Flush calls interleaved with the loop's cycles, no event posted: the    *)
(* run keeps the record of every texture update.                           *)
(***************************************************************************)
PresentEnv ==
    [MainEnv EXCEPT !.events = 0, !.areas = {FullScreen, OffScreen}, !.trace = TRUE]

InitPresent ==
    /\ conf \in Builds
    /\ Running(PresentEnv, {"none"})

\* A flush call that has been entered runs on: its thread is scheduled.
FlushRuns ==
    \E s \in Surfaces :
        FlushSetFbAct(s) \/ FlushCopy(s) \/ FlushSetQry(s) \/ FlushReady(s)

SpecPresent ==
    InitPresent /\ [][NextPresent]_vars /\ PresentFair /\ WF_vars(FlushRuns)

(***************************************************************************)
(* The properties.                                                         *)
(***************************************************************************)
\* A flush call on surface s is between its entry and its return.
InFlight(s) == fl[s].pc \in {"set_fb_act", "copy", "set_qry", "ready"}

\* "Fully outside the surface's effective (rotation-aware) bounds".
Outside(a, rot) ==
    LET width == IF rot = 0 THEN MONITOR_HOR_RES ELSE MONITOR_VER_RES
        height == IF rot = 0 THEN MONITOR_VER_RES ELSE MONITOR_HOR_RES
    IN a.x2 < 0 \/ a.y2 < 0 \/ a.x1 > width - 1 \/ a.y1 > height - 1

\* C1: every call of monitor_flush and monitor_flush2 sends
\* lv_disp_flush_ready exactly once before it returns, on the rejected branch
\* as on the others and in both buffer modes: none while the call runs, one
\* when it has returned; and a call whose rectangle is not rejected sends it
\* only after it has set sdl_refr_qry.
FlushAcksOnce ==
    \A s \in Surfaces :
        /\ InFlight(s) => fl[s].acks = 0
        /\ fl[s].pc = "returned" => fl[s].acks = 1
        /\ (fl[s].pc = "ready" /\ ~Outside(fl[s].area, fl[s].rotated)) => fl[s].qrySet
        /\ (fl[s].pc = "ready" /\ Outside(fl[s].area, fl[s].rotated)) => ~fl[s].qrySet

\* A call on monitor2 that took the rejected branch is about to acknowledge
\* while a call on monitor that set the flag has acknowledged and returned.
FlushAcksOnceSeen ==
    /\ fl[2].pc = "ready" /\ Outside(fl[2].area, fl[2].rotated)
    /\ fl[1].pc = "returned" /\ fl[1].acks = 1

\* C2: a flush call whose rectangle lies fully outside the effective bounds
\* (x2 < 0, y2 < 0, x1 > effective width - 1 or y1 > effective height - 1)
\* returns with the acknowledgment sent once and leaves the surface, its
\* buffer or borrowed pointer and its sdl_refr_qry flag included, exactly as
\* it was at entry.
RejectedFlushLeavesSurface ==
    \A s \in Surfaces :
        (fl[s].pc # "idle" /\ Outside(fl[s].area, fl[s].rotated)) =>
            /\ monitor[s] = fl[s].before
            /\ fl[s].pc \in {"ready", "returned"}
            /\ fl[s].pc = "returned" => fl[s].acks = 1

\* A rectangle inside the unrotated bounds but outside the rotated ones was
\* rejected on a rotated display whose flag was clear, and the call returned.
RejectedFlushSeen ==
    \E s \in Surfaces :
        /\ fl[s].pc = "returned"
        /\ fl[s].rotated = 1
        /\ fl[s].area.x1 = MONITOR_VER_RES /\ fl[s].area.y1 = 0
        /\ ~fl[s].before.sdl_refr_qry

\* The offset in the draw buffer of the pixel for cell (x, y) of rectangle a,
\* the buffer holding the rectangle's pixels row by row.
SourceOffset(a, x, y) == (y - a.y1) * (a.x2 - a.x1 + 1) + (x - a.x1)

\* C3: in the single-buffered build, after a flush whose rectangle lies fully
\* or partially inside the surface has returned, every cell of tft_fb inside
\* both the rectangle and the surface holds the converted source pixel of its
\* row-major position in the draw buffer, and every other cell holds the
\* value it had at entry (stated for the unrotated display, where the
\* effective bounds are the surface).
FlushWritesIntersectionOnly ==
    \A s \in Surfaces :
        ( /\ ~conf.MONITOR_DOUBLE_BUFFERED
          /\ fl[s].pc = "returned"
          /\ fl[s].rotated = 0
          /\ ~Outside(fl[s].area, 0) ) =>
            \A x \in 0 .. (MONITOR_HOR_RES - 1), y \in 0 .. (MONITOR_VER_RES - 1) :
                LET a == fl[s].area
                    cell == monitor[s].tft_fb[y * MONITOR_HOR_RES + x]
                IN IF a.x1 <= x /\ x <= a.x2 /\ a.y1 <= y /\ y <= a.y2
                   THEN cell = StoredPixel(conf.LV_COLOR_DEPTH, fl[s].color_p,
                                           SourceOffset(a, x, y))
                   ELSE cell = fl[s].before.tft_fb[y * MONITOR_HOR_RES + x]

\* The texture updates of surface s the loop made on finding its flag set.
QryUpdates(s) == SelectSeq(cycle, LAMBDA u : u.s = s /\ u.via = "qry")

\* The framework has made all its flush calls while the loop slept, at least
\* two of them not rejected and on surface s, and they have returned.
Coalesced(s) ==
    /\ Len(fl[s].hist) >= 2
    /\ env.flush = 0
    /\ \A o \in Surfaces : FlushIdle(o)

LastFlush(s) == fl[s].hist[Len(fl[s].hist)]

\* The update u shows the data of the last flush on s and of no earlier one.
ShowsLastFlush(s, u) ==
    /\ u.pixels = LastFlush(s).shown
    /\ conf.MONITOR_DOUBLE_BUFFERED =>
          /\ u.pixels = LastFlush(s).color_p
          /\ \A j \in 1 .. (Len(fl[s].hist) - 1) : u.pixels # fl[s].hist[j].color_p
    /\ ~conf.MONITOR_DOUBLE_BUFFERED =>
          LET a == LastFlush(s).area
          IN \A x \in a.x1 .. a.x2, y \in a.y1 .. a.y2 :
                u.pixels[y * MONITOR_HOR_RES + x] =
                    StoredPixel(conf.LV_COLOR_DEPTH, LastFlush(s).color_p,
                                SourceOffset(a, x, y))

CoalescedSafe ==
    \A s \in Surfaces :
        Coalesced(s) =>
            /\ Len(QryUpdates(s)) <= 1
            /\ Len(QryUpdates(s)) = 0 =>
                  \/ monitor[s].sdl_refr_qry
                  \/ refr.pc = "update" /\ refr.s = s
            /\ Len(QryUpdates(s)) = 1 => ~monitor[s].sdl_refr_qry
            /\ \A k \in DOMAIN QryUpdates(s) : ShowsLastFlush(s, QryUpdates(s)[k])

CoalescedShown(s) == Len(QryUpdates(s)) = 1 /\ ~monitor[s].sdl_refr_qry

\* C4: after back-to-back flushes on one surface that were not rejected, with
\* no cycle of the loop between them, sdl_refr_qry is true until the loop
\* clears it, and the loop then presents the surface exactly once, with the
\* data of the last flush and never of an earlier one: the last flush's
\* pointer in the double-buffered build, tft_fb as the last flush left it in
\* the single-buffered build.
FlushesCoalesce ==
    /\ []CoalescedSafe
    /\ \A s \in Surfaces : Coalesced(s) ~> CoalescedShown(s)

\* Two flushes on monitor2 were presented by one texture update.
FlushesCoalesceSeen ==
    /\ Coalesced(2)
    /\ Len(fl[2].hist) = 2
    /\ CoalescedShown(2)

\* C5: in the double-buffered build SDL_UpdateTexture is never handed a null
\* tft_fb_act: not by window_create, not by the refresh of a set flag, not by
\* the re-presentation on an exposed window.
NoNullTextureUpdate ==
    conf.MONITOR_DOUBLE_BUFFERED =>
        /\ \A k \in DOMAIN calls :
              calls[k][1] = "SDL_UpdateTexture" => calls[k][3] # NULL
        /\ \A k \in DOMAIN cycle : cycle[k].pixels # NULL

HasCall(c) == \E k \in DOMAIN calls : calls[k] = c

\* C6: sdl_inited is true only after SDL_Init, SDL_SetEventFilter and the
\* creation of the window, renderer and texture of every configured surface;
\* monitor_init has not returned while sdl_inited is false; and no flush call
\* has started before monitor_sdl_init, window creation included, is done.
InitedAfterCreation ==
    /\ sdl_inited =>
          /\ HasCall(<<"SDL_Init", 0>>) /\ sdl.state # "off"
          /\ HasCall(<<"SDL_SetEventFilter", 0>>) /\ sdl.filter
          /\ \A s \in Surfaces :
                Configured(s) =>
                    /\ HasCall(<<"SDL_CreateWindow", s>>)
                    /\ HasCall(<<"SDL_CreateRenderer", s>>)
                    /\ HasCall(<<"SDL_CreateTexture", s>>)
                    /\ monitor[s].window # NULL
                    /\ monitor[s].renderer # NULL
                    /\ monitor[s].texture # NULL
    /\ mainPc = "returned" => sdl_inited
    /\ \A s \in Surfaces : fl[s].pc # "idle" => (initPc = "done" /\ sdl_inited)

\* Where the sdl_refr thread initializes SDL: monitor_init has returned and a
\* flush of monitor2 is copying.
InitedAfterCreationSeen ==
    /\ conf.platform = "default"
    /\ mainPc = "returned"
    /\ fl[2].pc = "copy"

\* The calls of the documented teardown: per configured surface the texture,
\* the renderer, the window; then SDL_Quit; then exit.
DocumentedTeardown ==
    LET of(s) == << <<"SDL_DestroyTexture", TextureOf(s)>>,
                    <<"SDL_DestroyRenderer", RendererOf(s)>>,
                    <<"SDL_DestroyWindow", WindowOf(s)>> >>
    IN of(1) \o (IF conf.MONITOR_DUAL THEN of(2) ELSE <<>>)
       \o << <<"SDL_Quit", 0>>, <<"exit", 0>> >>

IsTeardownCall(c) ==
    c[1] \in {"SDL_DestroyTexture", "SDL_DestroyRenderer", "SDL_DestroyWindow",
              "SDL_Quit", "exit"}

TornDownOnce ==
    /\ exited
    /\ SelectSeq(calls, IsTeardownCall) = DocumentedTeardown

\* C7: once a window-close or quit event has occurred (SDL has passed it to
\* quit_filter, which set sdl_quit_qry), teardown eventually runs, once:
\* texture, renderer and window of every configured surface, each destroyed
\* once, then SDL_Quit, then exit.
QuitTearsDown == sdl_quit_qry ~> TornDownOnce

\* The loop takes a window-exposed or take-focus event off the queue.
DrainsExposed ==
    /\ refr.pc = "poll"
    /\ sdl.queue # <<>>
    /\ Head(sdl.queue).type = "SDL_WINDOWEVENT"
    /\ Head(sdl.queue).window \in {"SDL_WINDOWEVENT_EXPOSED", "SDL_WINDOWEVENT_TAKE_FOCUS"}
    /\ sdl'.queue = Tail(sdl.queue)

\* That step hands surface s's pixels to SDL_UpdateTexture.
RePresented(s) ==
    \E k \in (Len(cycle) + 1) .. Len(cycle') :
        cycle'[k] = [s |-> s, via |-> "event", pixels |-> Pixels(s)]

\* No flush has yet assigned the borrowed pointer of surface s.
Unassigned(s) == conf.MONITOR_DOUBLE_BUFFERED /\ monitor[s].tft_fb_act = NULL

\* C8 as stated: when the loop drains a window-exposed or take-focus event it
\* re-presents every configured surface in that cycle, whatever the value of
\* the surface's sdl_refr_qry.
ExposedRePresentsAll ==
    [][DrainsExposed => \A s \in Surfaces : Configured(s) => RePresented(s)]_vars

\* C8: when the loop drains a window-exposed or take-focus event it
\* re-presents, in that cycle and whatever the value of sdl_refr_qry, every
\* configured surface that has pixels to show: every surface in the
\* single-buffered build, and in the double-buffered build every surface
\* whose tft_fb_act a flush has assigned; a surface whose tft_fb_act is still
\* NULL is skipped.
ExposedRePresentsAssigned ==
    [][DrainsExposed =>
         \A s \in Surfaces :
             Configured(s) => (RePresented(s) <=> ~Unassigned(s))]_vars

\* monitor2 was re-presented on an event in a cycle that found its flag
\* clear, and the flag is still clear.
ExposedRePresentsSeen ==
    /\ \E k \in DOMAIN cycle : cycle[k].s = 2 /\ cycle[k].via = "event"
    /\ \A k \in DOMAIN cycle : ~(cycle[k].s = 2 /\ cycle[k].via = "qry")
    /\ ~monitor[2].sdl_refr_qry

\* The steps of a flush call after its entry.
FlushStep(s) == FlushSetFbAct(s) \/ FlushCopy(s) \/ FlushSetQry(s) \/ FlushReady(s)

\* A bound on the steps a flush call still has to take.
StepsLeft(s) ==
    LET c == fl[s]
        rows == IF c.y <= c.area.y2 THEN c.area.y2 - c.y + 1 ELSE 0
    IN CASE c.pc = "set_fb_act" -> 3
         [] c.pc = "copy" -> 3 + rows
         [] c.pc = "set_qry" -> 2
         [] c.pc = "ready" -> 1
         [] OTHER -> 0

FlushCanStep ==
    \A s \in Surfaces : (InFlight(s) /\ ~exited) => ENABLED FlushStep(s)

\* C9: a flush call never blocks and never waits on the loop: wherever the
\* loop is (not started on a cycle, presenting, sleeping, tearing down) and
\* whatever the value of sdl_refr_qry, a started call can take its next step
\* as long as the process lives, and every step brings it nearer to its
\* acknowledgment and return.
FlushNeverBlocks ==
    /\ []FlushCanStep
    /\ [][\A s \in Surfaces : FlushStep(s) => StepsLeft(s)' < StepsLeft(s)]_vars

\* A call on monitor about to acknowledge while the thread is between
\* monitor_sdl_clean_up and exit, with the flag of an earlier request set.
FlushNeverBlocksSeen ==
    /\ fl[1].pc = "ready"
    /\ refr.pc = "exit"
    /\ fl[2].pc = "set_qry" /\ monitor[2].sdl_refr_qry

\* C10: sdl_inited and sdl_quit_qry are never reset: no step of
\* initialization, flush, the loop, quit_filter or teardown takes either from
\* true to false.
FlagsNeverReset ==
    [][(sdl_inited => sdl_inited') /\ (sdl_quit_qry => sdl_quit_qry')]_vars

\* Both flags are set, teardown has run and the process has exited.
FlagsNeverResetSeen ==
    /\ sdl_inited
    /\ sdl_quit_qry
    /\ exited

\* monitor_sdl_init takes the step that positions the two windows.
Positions == initPc = "position" /\ initPc' = "set_inited"

\* The gap of the claim: half the horizontal resolution plus ten.
HalfGap == MONITOR_HOR_RES \div 2 + 10

\* C11: with two surfaces, once both windows exist they are placed relative
\* to one reference position, monitor2's window's position (x, y) before the
\* step: monitor's window goes to (x + (MONITOR_HOR_RES / 2 + 10), y) and
\* monitor2's to (x - (MONITOR_HOR_RES / 2 + 10), y), so the two offsets are
\* equal in magnitude and opposite in sign.
WindowsPlacedSymmetric ==
    [][Positions =>
         LET ref == sdl.pos[2]
         IN /\ WindowOf(1) \in sdl.live /\ WindowOf(2) \in sdl.live
            /\ sdl'.pos[1] = [x |-> ref.x + HalfGap, y |-> ref.y]
            /\ sdl'.pos[2] = [x |-> ref.x - HalfGap, y |-> ref.y]
            /\ (sdl'.pos[1].x - ref.x) + (sdl'.pos[2].x - ref.x) = 0]_vars

\* The two windows have been placed around a reference left of the origin.
WindowsPlacedSeen ==
    /\ conf.MONITOR_DUAL
    /\ initPc = "set_inited"
    /\ sdl.pos[1].x - sdl.pos[2].x = 2 * HalfGap
    /\ sdl.pos[1].x + sdl.pos[2].x < 0
    /\ sdl.pos[1].y = MaxPlace /\ sdl.pos[2].y = MaxPlace

\* The loop's driver enters a refresh cycle: the thread from its loop test,
\* the host through the frame callback.
CycleStarts == refr.pc \in {"loop", "idle"} /\ refr'.pc = "qry_test"

\* The thread leaves its loop test.
LoopTested == refr.pc = "loop" /\ refr'.pc # "loop"

\* C12: once sdl_quit_qry is true no further refresh cycle starts, whatever
\* drives the loop (the thread, the thread after set-up on the caller's
\* thread, the host's frame callback): the next entry goes to teardown
\* instead of presenting; and a flush call in flight can still take its
\* steps to the acknowledgment.
QuitStopsCycles ==
    /\ [][sdl_quit_qry => (~CycleStarts /\ (LoopTested => refr'.pc = "clean_up"))]_vars
    /\ [](\A s \in Surfaces :
            (sdl_quit_qry /\ InFlight(s) /\ ~exited) => ENABLED FlushStep(s))

\* The handle a create call of the record made.
CreatedHandle(c) ==
    CASE c[1] = "SDL_CreateWindow" -> WindowOf(c[2])
      [] c[1] = "SDL_CreateRenderer" -> RendererOf(c[2])
      [] c[1] = "SDL_CreateTexture" -> TextureOf(c[2])

IsCreateCall(c) ==
    c[1] \in {"SDL_CreateWindow", "SDL_CreateRenderer", "SDL_CreateTexture"}

IsDestroyCall(c) ==
    c[1] \in {"SDL_DestroyWindow", "SDL_DestroyRenderer", "SDL_DestroyTexture"}

\* The handles created, and the handles destroyed, in the order of the calls.
CreatedInOrder ==
    LET cs == SelectSeq(calls, IsCreateCall)
    IN [k \in DOMAIN cs |-> CreatedHandle(cs[k])]

DestroyedInOrder ==
    LET ds == SelectSeq(calls, IsDestroyCall)
    IN [k \in DOMAIN ds |-> ds[k][2]]

Reversed(q) == [k \in DOMAIN q |-> q[Len(q) + 1 - k]]

\* The handles of surface s among q, in q's order.
OfSurface(q, s) ==
    SelectSeq(q, LAMBDA h : h \in {WindowOf(s), RendererOf(s), TextureOf(s)})

\* monitor_sdl_clean_up has run.
CleanedUp == refr.pc \in {"exit", "exited"}

\* SDL_Quit comes after every destroy call, and once.
QuitAfterDestroys ==
    /\ Len(SelectSeq(calls, LAMBDA c : c[1] = "SDL_Quit")) = 1
    /\ \A j, k \in DOMAIN calls :
          (IsDestroyCall(calls[j]) /\ calls[k][1] = "SDL_Quit") => j < k

\* C13 as stated: teardown destroys the handles in the exact reverse of the
\* order in which initialization created them, with one surface or two, and
\* shuts SDL down only after the last destroy call.
DestroysReverseCreates ==
    CleanedUp => (DestroyedInOrder = Reversed(CreatedInOrder) /\ QuitAfterDestroys)

\* C13: teardown destroys the handles of each surface in the reverse of the
\* order in which that surface's handles were created (texture, renderer,
\* window), taking the surfaces in the order of their creation (monitor, then
\* monitor2), and shuts SDL down only after the last destroy call.
DestroysReversePerSurface ==
    CleanedUp =>
        /\ \A s \in Surfaces :
              OfSurface(DestroyedInOrder, s) = Reversed(OfSurface(CreatedInOrder, s))
        /\ DestroyedInOrder =
              OfSurface(DestroyedInOrder, 1) \o OfSurface(DestroyedInOrder, 2)
        /\ Len(DestroyedInOrder) = Len(CreatedInOrder)
        /\ QuitAfterDestroys

\* Both surfaces were created and torn down.
DestroysReverseSeen ==
    /\ conf.MONITOR_DUAL
    /\ CleanedUp
    /\ Len(DestroyedInOrder) = 6

\* All the stores <<index, offset>> the copy loops of the path compiled for
\* depth make for rectangle a, were every one of them to land.
FlushStores(depth, a) ==
    UNION { { RowStores(a, y, (y - a.y1) * lv_area_get_width(a))[k] :
                k \in 1 .. lv_area_get_width(a) } :
            y \in { r \in a.y1 .. a.y2 : RowLoopRuns(depth, a, r) } }

StoreIndices(stores) == { st[1] : st \in stores }

\* The buffer fb after the stores, the source being draw buffer f converted
\* as for depth; of two stores to one cell the later (of larger offset) stays.
AfterStores(fb, stores, depth, f) ==
    [ i \in FbIndex |->
        IF i \in StoreIndices(stores)
        THEN LET o == CHOOSE o \in { st[2] : st \in { u \in stores : u[1] = i } } :
                          \A st \in stores : st[1] = i => st[2] <= o
             IN StoredPixel(depth, f, o)
        ELSE fb[i] ]

\* The depth for which the other copy path is compiled.
OtherPath(depth) == IF depth = 16 THEN 32 ELSE 16

\* C14: the row-wise memcpy path and the per-pixel path write the same cells
\* with the same values: a single-buffered flush that was not rejected leaves
\* tft_fb as the other path would have left it from the same buffer,
\* rectangle and source pixels, and stores outside tft_fb only where the other
\* path does, rectangles reaching past the bottom or right edge included.
CopyPathsAgree ==
    \A s \in Surfaces :
        (~conf.MONITOR_DOUBLE_BUFFERED /\ fl[s].pc # "idle"
         /\ ~OutOfScreen(fl[s].area, fl[s].rotated)) =>
            LET other == FlushStores(OtherPath(conf.LV_COLOR_DEPTH), fl[s].area)
            IN /\ fl[s].stray \subseteq StoreIndices(other)
               /\ fl[s].pc \in {"set_qry", "ready", "returned"} =>
                     /\ StoreIndices(other) \subseteq FbIndex
                     /\ monitor[s].tft_fb =
                           AfterStores(fl[s].before.tft_fb, other,
                                       conf.LV_COLOR_DEPTH, fl[s].color_p)

\* C19: in the single-buffered build every store of a flush that passed the
\* rejection test, y * MONITOR_HOR_RES + x, lands inside tft_fb and in the
\* row y it was addressed for, whatever the rectangle (partially inside,
\* negative x1 or y1, x2 or y2 past the edge) and the rotation.
FlushStoresInBuffer ==
    \A s \in Surfaces :
        ( /\ ~conf.MONITOR_DOUBLE_BUFFERED
          /\ fl[s].pc = "copy"
          /\ RowLoopRuns(conf.LV_COLOR_DEPTH, fl[s].area, fl[s].y) ) =>
            \A k \in 1 .. lv_area_get_width(fl[s].area) :
                LET index == RowStores(fl[s].area, fl[s].y, fl[s].off)[k][1]
                IN /\ index \in 0 .. (MONITOR_HOR_RES * MONITOR_VER_RES - 1)
                   /\ index >= fl[s].y * MONITOR_HOR_RES
                   /\ index < (fl[s].y + 1) * MONITOR_HOR_RES

\* The platforms whose loop polls the events itself.
Polling == ~MONITOR_APPLE /\ ~MONITOR_EMSCRIPTEN

\* How many of the queued events the loop has taken off the queue.
PolledSoFar == Len(sdl.arrived) - Len(sdl.queue)

RECURSIVE HandlersServed(_)
\* What the handlers see when the first n queued events are each offered to
\* the mouse, the wheel and the keyboard handler, in the order of arrival.
HandlersServed(n) ==
    IF n = 0 THEN <<>>
    ELSE HandlersServed(n - 1)
         \o << <<"mouse_handler", sdl.arrived[n]>>,
                <<"mousewheel_handler", sdl.arrived[n]>>,
                <<"keyboard_handler", sdl.arrived[n]>> >>

HandlerCalls == SelectSeq(refr.offered, LAMBDA c : c[1] # "window_update")

\* Every re-presentation made for an event comes after that event's
\* keyboard handler call, the last of the three, with nothing but
\* re-presentations in between.
ExposeAfterHandlers ==
    \A i \in DOMAIN refr.offered :
        refr.offered[i][1] = "window_update" =>
            \E j \in 1 .. (i - 1) :
                /\ refr.offered[j] = <<"keyboard_handler", refr.offered[i][2]>>
                /\ \A k \in (j + 1) .. i : refr.offered[k][1] = "window_update"

\* C15: on the polling platforms the loop takes the queued events in the
\* order of arrival and offers each to the mouse, the wheel and the keyboard
\* handler, in that order, before it takes the next: no event is skipped,
\* reordered or delivered twice, the expose handling of an event follows its
\* three handlers, and a cycle leaves the polling loop only with the queue
\* empty.
EventsDrainedInOrder ==
    /\ [](Polling =>
            /\ PolledSoFar >= 0
            /\ sdl.queue = SubSeq(sdl.arrived, PolledSoFar + 1, Len(sdl.arrived))
            /\ HandlerCalls = HandlersServed(PolledSoFar)
            /\ ExposeAfterHandlers)
    /\ [][(Polling /\ refr.pc = "poll" /\ refr'.pc # "poll") => sdl.queue = <<>>]_vars

EventsDrainedSeen ==
    /\ Polling
    /\ refr.pc = "delay"
    /\ Len(sdl.arrived) = MaxPolled
    /\ sdl.queue = <<>>
    /\ sdl.arrived[1].window = "SDL_WINDOWEVENT_EXPOSED"
    /\ sdl.arrived[2].type = "SDL_MOUSEMOTION"
    /\ sdl.arrived[3].window = "SDL_WINDOWEVENT_MOVED"
    /\ Len(HandlerCalls) = 3 * MaxPolled
    /\ Len(refr.offered) > 3 * MaxPolled

\* The events that ask for the quit: SDL_QUIT and the window-close event.
IsQuitRequest(e) ==
    \/ e.type = "SDL_QUIT"
    \/ e.type = "SDL_WINDOWEVENT" /\ e.window = "SDL_WINDOWEVENT_CLOSE"

\* C16: the installed filter sets sdl_quit_qry at once on SDL_QUIT and on the
\* window-close event, whether or not the loop has drained the event, leaves
\* the flag as it is on every other event, and removes no event from the
\* queue (it returns 1): the flag is set exactly when one of the two events
\* has come since the filter was installed.
FilterSetsQuitOnly ==
    /\ [][\A e \in EventTypes :
            (sdl.filter /\ PostEvent(e)) =>
                /\ IsQuitRequest(e) => sdl_quit_qry' = TRUE
                /\ ~IsQuitRequest(e) => sdl_quit_qry' = sdl_quit_qry
                /\ sdl'.queue = Append(sdl.queue, e)]_vars
    /\ [](sdl.filter =>
            (sdl_quit_qry <=> \E i \in DOMAIN sdl.arrived : IsQuitRequest(sdl.arrived[i])))

FilterSetsQuitSeen ==
    /\ sdl.filter
    /\ sdl_quit_qry
    /\ refr.pc \in {"qry_test", "update", "delay"}
    /\ Len(sdl.queue) = 2
    /\ sdl.queue[1].type = "SDL_MOUSEMOTION"
    /\ sdl.queue[2].window = "SDL_WINDOWEVENT_CLOSE"

\* The native handles of surface s.
HandlesOf(s) == <<monitor[s].window, monitor[s].renderer, monitor[s].texture>>

\* C17: in the dual build a step of a flush to one surface stores only into
\* that surface's buffer (or sets its borrowed pointer) and sets its flag: it
\* stores nowhere outside the buffer, and leaves the other surface, the
\* native handles of both, sdl_inited, sdl_quit_qry and the SDL service as
\* they were, so that the steps of monitor_flush and monitor_flush2 commute.
FlushesIndependent ==
    [][\A s \in Surfaces :
          (conf.MONITOR_DUAL /\ monitor_flush(s)) =>
              /\ \A o \in Surfaces \ {s} : monitor'[o] = monitor[o] /\ fl'[o] = fl[o]
              /\ HandlesOf(s)' = HandlesOf(s)
              /\ fl'[s].stray = {}
              /\ UNCHANGED <<sdl_inited, sdl_quit_qry, sdl, calls>>]_vars

\* The j-th flush on surface s that was not rejected has returned.
Flushed(s, j) == Len(fl[s].hist) >= j

\* The texture update u read the surface after the write of flush h: it shows
\* the pointer of h or of a later flush (double-buffered), or in every cell
\* of the rectangle of h the pixel h stored there or one stored by a later
\* flush (single-buffered).
ReadAfterWrite(u, h) ==
    IF conf.MONITOR_DOUBLE_BUFFERED
    THEN u.pixels \in h.color_p .. MaxFlush
    ELSE \A x \in h.area.x1 .. h.area.x2, y \in h.area.y1 .. h.area.y2 :
            \/ u.pixels[y * MONITOR_HOR_RES + x] =
                  StoredPixel(conf.LV_COLOR_DEPTH, h.color_p, SourceOffset(h.area, x, y))
            \/ \E g \in (h.color_p + 1) .. MaxFlush, o \in FbIndex :
                  u.pixels[y * MONITOR_HOR_RES + x] = StoredPixel(conf.LV_COLOR_DEPTH, g, o)

Presented(s, j) ==
    /\ Flushed(s, j)
    /\ \E k \in DOMAIN QryUpdates(s) : ReadAfterWrite(QryUpdates(s)[k], fl[s].hist[j])

\* C18: no flush is lost: whatever the interleaving of a flush that was not
\* rejected with the loop's cycles, while the quit is not requested and the
\* loop keeps cycling, the loop eventually makes a texture update that reads
\* the buffer (or the pointer) after that flush wrote it.
NoFlushLost ==
    \A s \in Surfaces : \A j \in 1 .. MaxFlush : Flushed(s, j) ~> Presented(s, j)

\* The second flush on monitor2 was copying while the loop presented the
\* first (that update read a buffer holding rows of both), and a later update
\* presented the second.
NoFlushLostSeen ==
    /\ conf.MONITOR_DUAL
    /\ ~conf.MONITOR_DOUBLE_BUFFERED
    /\ Len(fl[2].hist) = MaxFlush
    /\ Len(QryUpdates(2)) = MaxFlush
    /\ QryUpdates(2)[1].pixels \notin { fl[2].hist[j].shown : j \in 1 .. MaxFlush }
    /\ QryUpdates(2)[MaxFlush].pixels = fl[2].hist[MaxFlush].shown
    /\ \A j \in 1 .. MaxFlush : Presented(2, j)

\* The call at position k of the record names handle h, which an earlier
\* call created and no call in between destroyed.
LiveAt(k, h) ==
    /\ \E j \in 1 .. (k - 1) : IsCreateCall(calls[j]) /\ CreatedHandle(calls[j]) = h
    /\ \A j \in 1 .. (k - 1) : IsDestroyCall(calls[j]) => calls[j][2] # h

\* C20: the native handles are used only while live: no texture update, no
\* renderer clear, copy or present, no window positioning and no destroy call
\* names a handle that was not yet created or was already destroyed, and no
\* handle is created twice.
HandlesUsedWhileLive ==
    /\ ~sdl.misuse
    /\ \A j, k \in DOMAIN calls :
          (j < k /\ IsCreateCall(calls[j]) /\ IsCreateCall(calls[k])) =>
              CreatedHandle(calls[j]) # CreatedHandle(calls[k])
    /\ \A k \in DOMAIN calls :
          /\ IsDestroyCall(calls[k]) => LiveAt(k, calls[k][2])
          /\ calls[k][1] \in {"SDL_GetWindowPosition", "SDL_SetWindowPosition"} =>
                LiveAt(k, WindowOf(calls[k][2]))
          /\ calls[k][1] = "SDL_UpdateTexture" => LiveAt(k, TextureOf(calls[k][2]))
          /\ calls[k][1] = "SDL_CreateRenderer" => LiveAt(k, WindowOf(calls[k][2]))
          /\ calls[k][1] = "SDL_CreateTexture" => LiveAt(k, RendererOf(calls[k][2]))

\* Both surfaces were created, positioned, presented by the loop and torn
\* down.
HandlesUsedSeen ==
    /\ conf.MONITOR_DUAL
    /\ refr.pc = "exited"
    /\ sdl.live = {}
    /\ ~sdl.misuse
    /\ HasCall(<<"SDL_SetWindowPosition", 2>>)
    /\ HasCall(<<"SDL_DestroyTexture", TextureOf(2)>>)
    /\ \A s \in Surfaces : ~monitor[s].sdl_refr_qry

====
